---- MODULE Spec2Model ----
(***************************************************************************)
(* Model of kupo's Directory widget (src/kupo/_directory.py): the entry    *)
(* list, the cursor, the name filter, the chosen-path set, batch deletion  *)
(* and the directory-change requests sent to the container.                *)
(*                                                                         *)
(* Paths are sequences of path components anchored at "/": the root is     *)
(* <<"/">>, /a/x is <<"/", "a", "x">>.  Python's None is the empty         *)
(* sequence, for paths and for optional indices alike; an index i is the   *)
(* one-element sequence <<i>>.  Indices are 0-based as in the source.      *)
(***************************************************************************)
EXTENDS Integers, Sequences, FiniteSets, TLC

VARIABLES
    fs,                      \* the filesystem: the set of paths that exist
    path,                    \* Directory.path
    _files,                  \* Directory._files
    _selected_index,         \* Directory._selected_index (None until mounted)
    mounted,                 \* _on_mount has run
    filter,                  \* Directory.filter (reactive)
    input_value,             \* directory_search.input.value
    chosen_paths,            \* Directory.chosen_paths
    has_focus,               \* Widget.has_focus
    cursor_movement_enabled, \* constructor argument
    emitted,                 \* messages emitted by the last handler, in order
    calls,                   \* filesystem/editor calls made by the last handler
    op,                      \* the last handler that ran
    error                    \* the exception that escaped the last handler

vars == <<fs, path, _files, _selected_index, mounted, filter, input_value,
          chosen_paths, has_focus, cursor_movement_enabled,
          emitted, calls, op, error>>

None == <<>>

---------------------------------------------------------------------------
(* The filesystem universe.  The root holds one subdirectory "a" and the   *)
(* first MaxRootFiles names of RootFileNames; "a" holds the file "x".      *)

MaxRootFiles == 2

RootFileNames == <<"ab", "b", "ba">>
SubFileNames == <<"x">>

Root == <<"/">>
SubDir == <<"/", "a">>

RootFiles == {<<"/", RootFileNames[i]>> : i \in 1..MaxRootFiles}
SubFiles == {<<"/", "a", SubFileNames[i]>> : i \in 1..Len(SubFileNames)}
AllFiles == RootFiles \cup SubFiles
AllDirs == {Root, SubDir}
AllPaths == AllDirs \cup AllFiles

\* The listing order of the whole universe: in a directory the files come
\* first, then the directories, so that "a" is not the first entry of the root.
ListingOrder ==
    [i \in 1..MaxRootFiles |-> <<"/", RootFileNames[i]>>]
    \o <<Root, SubDir>>
    \o [i \in 1..Len(SubFileNames) |-> <<"/", "a", SubFileNames[i]>>]

\* The characters of a name or of a filter pattern.
Chars(s) ==
    CASE s = "" -> <<>>
      [] s = "a" -> <<"a">>
      [] s = "b" -> <<"b">>
      [] s = "x" -> <<"x">>
      [] s = "ab" -> <<"a", "b">>
      [] s = "ba" -> <<"b", "a">>

\* The filter patterns tried: literal text, no regex metacharacters.
FilterPatterns == {"", "a", "b"}

---------------------------------------------------------------------------
(* pathlib                                                                 *)

\* Path.parent: the root is its own parent.
Parent(p) == IF Len(p) <= 1 THEN p ELSE SubSeq(p, 1, Len(p) - 1)

\* Path.name: the last component.
Name(p) == IF Len(p) <= 1 THEN "" ELSE p[Len(p)]

\* q is p or lies below p.
IsUnder(q, p) == Len(q) >= Len(p) /\ SubSeq(q, 1, Len(p)) = p

is_dir(fsys, p) == p \in fsys /\ p \in AllDirs
is_file(fsys, p) == p \in fsys /\ p \in AllFiles

---------------------------------------------------------------------------
(* re                                                                      *)

\* re.match(pattern, name) for a literal pattern: the name starts with it.
re_match(pattern, name) ==
    LET pc == Chars(pattern)
        nc == Chars(name)
    IN Len(pc) <= Len(nc) /\ SubSeq(nc, 1, Len(pc)) = pc

\* re.search(pattern, name) for a literal pattern: the name contains it.
re_search(pattern, name) ==
    LET pc == Chars(pattern)
        nc == Chars(name)
    IN \E k \in 0..Len(nc) :
           k + Len(pc) <= Len(nc) /\ SubSeq(nc, k + 1, k + Len(pc)) = pc

---------------------------------------------------------------------------
(* kupo._files                                                             *)

\* list_files_in_dir(path): the existing children of path, in listing order.
list_files_in_dir(fsys, dir) ==
    SelectSeq(ListingOrder, LAMBDA q : q \in fsys /\ q # dir /\ Parent(q) = dir)

\* rm_tree(path): best-effort recursive removal.  A file in denied cannot be
\* removed; a directory stays when something below it stays.
rm_tree(fsys, p, denied) ==
    LET below == {q \in fsys : IsUnder(q, p)}
        stay == {q \in below : \E f \in fsys \cap denied : IsUnder(f, q)}
    IN (fsys \ below) \cup stay

---------------------------------------------------------------------------
(* Messages                                                                *)

FilePreviewChanged(p) == [type |-> "FilePreviewChanged", path |-> p]

CurrentDirChanged(new_dir, from_dir) ==
    [type |-> "CurrentDirChanged", new_dir |-> new_dir, from_dir |-> from_dir]

SecondarySelectionChanged(selection) ==
    [type |-> "SecondarySelectionChanged", selection |-> selection]

\* The messages of one type among those the last handler emitted.
Emitted(type) == SelectSeq(emitted, LAMBDA m : m.type = type)

\* A directory-change request the container has not handled yet.
PendingDirChange == Len(Emitted("CurrentDirChanged")) > 0

---------------------------------------------------------------------------
(* The cursor                                                              *)

\* textual.geometry.clamp
clamp(value, minimum, maximum) ==
    IF value < minimum THEN minimum
    ELSE IF value > maximum THEN maximum
    ELSE value

_clamp_index(files, new_index) ==
    IF files = <<>> THEN 0
    ELSE clamp(new_index, 0, Len(files) - 1)

\* The selected_index setter: what it leaves in _selected_index.
selected_index_value(files, old_value, new_value) ==
    IF new_value # None THEN <<_clamp_index(files, new_value[1])>>
    ELSE old_value

\* Mutant: the message is built before the cursor is updated.
selected_index_emits_before(files, new_value, before) ==
    IF new_value # None /\ files # <<>>
    THEN Append(before,
                FilePreviewChanged(
                    IF _selected_index # None /\ _selected_index[1] < Len(files)
                    THEN files[_selected_index[1] + 1] ELSE None))
    ELSE before

\* Mutant: the message is emitted only when the stored index changes.
selected_index_emits_changed(files, new_value, before) ==
    IF /\ new_value # None
       /\ files # <<>>
       /\ <<_clamp_index(files, new_value[1])>> # _selected_index
    THEN Append(before,
                FilePreviewChanged(files[_clamp_index(files, new_value[1]) + 1]))
    ELSE before

\* The selected_index setter: the messages it adds to those sent before.
selected_index_emits(files, new_value, before) ==
    IF new_value # None /\ files # <<>>
    THEN Append(before,
                FilePreviewChanged(files[_clamp_index(files, new_value[1]) + 1]))
    ELSE before

\* The current_highlighted_path property.
current_highlighted_path ==
    IF _files = <<>> THEN None
    ELSE _files[_selected_index[1] + 1]

---------------------------------------------------------------------------
Init ==
    /\ fs = AllPaths
    /\ path = Root
    /\ _files = list_files_in_dir(AllPaths, Root)
    /\ _selected_index = None
    /\ mounted = FALSE
    /\ filter = ""
    /\ input_value = ""
    /\ chosen_paths = {}
    /\ has_focus = FALSE
    /\ cursor_movement_enabled \in BOOLEAN
    /\ emitted = <<>>
    /\ calls = <<>>
    /\ op = "__init__"
    /\ error = "none"

\* The search input holds a text that has not reached filter yet.
PendingInputChange == input_value # filter

\* A handler runs once the widget is mounted, no exception has ended the
\* application, and the messages sent so far have been handled: the change of
\* the search input and the directory-change request.
Ready ==
    mounted /\ error = "none" /\ ~PendingDirChange /\ ~PendingInputChange

_on_mount ==
    /\ ~mounted
    /\ mounted' = TRUE
    /\ _selected_index' = selected_index_value(_files, _selected_index, <<0>>)
    /\ emitted' = selected_index_emits(_files, <<0>>, <<>>)
    /\ calls' = <<>>
    /\ op' = "_on_mount"
    /\ UNCHANGED <<fs, path, _files, filter, input_value, chosen_paths,
                   has_focus, cursor_movement_enabled, error>>

\* on_focus, on_blur: the widget gains and loses the focus (the filter
\* warning they show and hide belongs to the application).
on_focus ==
    /\ Ready
    /\ ~has_focus
    /\ has_focus' = TRUE
    /\ emitted' = <<>>
    /\ calls' = <<>>
    /\ op' = "on_focus"
    /\ UNCHANGED <<fs, path, _files, _selected_index, mounted, filter,
                   input_value, chosen_paths, cursor_movement_enabled, error>>

on_blur ==
    /\ Ready
    /\ has_focus
    /\ has_focus' = FALSE
    /\ emitted' = <<>>
    /\ calls' = <<>>
    /\ op' = "on_blur"
    /\ UNCHANGED <<fs, path, _files, _selected_index, mounted, filter,
                   input_value, chosen_paths, cursor_movement_enabled, error>>

\* The body shared by the handlers that assign selected_index and touch
\* nothing else.
MoveCursor(name, new_value) ==
    /\ _selected_index' = selected_index_value(_files, _selected_index, new_value)
    /\ emitted' = selected_index_emits(_files, new_value, <<>>)
    /\ calls' = <<>>
    /\ op' = name
    /\ UNCHANGED <<fs, path, _files, mounted, filter, input_value, chosen_paths,
                   has_focus, cursor_movement_enabled, error>>

\* The handlers that move only when focused and movement is enabled.
GuardedMove(name, delta) ==
    IF has_focus /\ cursor_movement_enabled
    THEN MoveCursor(name, <<_selected_index[1] + delta>>)
    ELSE /\ emitted' = <<>>
         /\ calls' = <<>>
         /\ op' = name
         /\ UNCHANGED <<fs, path, _files, _selected_index, mounted, filter,
                        input_value, chosen_paths, has_focus,
                        cursor_movement_enabled, error>>

\* action_next_file (also key_down and the mouse wheel); scrolling belongs to
\* the parent widget.
action_next_file == Ready /\ GuardedMove("action_next_file", 1)

\* action_prev_file (also key_up and the mouse wheel).
action_prev_file == Ready /\ GuardedMove("action_prev_file", -1)

\* The value action_first assigns to selected_index.
action_first_value(files) == <<_clamp_index(files, 0)>>

action_first == Ready /\ MoveCursor("action_first", action_first_value(_files))

\* The value action_last assigns to selected_index.
action_last_value(files) ==
    IF files # <<>> THEN <<Len(files) - 1>> ELSE None

action_last == Ready /\ MoveCursor("action_last", action_last_value(_files))

---------------------------------------------------------------------------
(* The filter                                                              *)

\* Mutant: the pattern is applied to the entries shown, not to the directory.
watch_filter_files_shown(fsys, dir, new_filter) ==
    SelectSeq(_files, LAMBDA file : re_match(new_filter, Name(file)))

\* watch_filter: the entries it keeps.
watch_filter_files(fsys, dir, new_filter) ==
    SelectSeq(list_files_in_dir(fsys, dir),
              LAMBDA file : re_match(new_filter, Name(file)))

\* watch_filter: the value it assigns to selected_index.
watch_filter_value(files) == IF files # <<>> THEN <<0>> ELSE None

\* Mutant: the watcher runs when the assigned value is the one already held.
set_filter_unchanged(new_filter) ==
    /\ Ready
    /\ input_value' = new_filter
    /\ filter' = new_filter
    /\ IF new_filter = filter
       THEN LET files == watch_filter_files(fs, path, new_filter)
                value == watch_filter_value(files)
            IN /\ _files' = files
               /\ _selected_index' =
                      selected_index_value(files, _selected_index, value)
               /\ emitted' = selected_index_emits(files, value, <<>>)
       ELSE /\ emitted' = <<>>
            /\ UNCHANGED <<_files, _selected_index>>
    /\ calls' = <<>>
    /\ op' = "watch_filter"
    /\ UNCHANGED <<fs, path, mounted, chosen_paths, has_focus,
                   cursor_movement_enabled, error>>

\* The search input hands its text to the reactive attribute filter; the
\* watcher runs when the value changed.
set_filter(new_filter) ==
    /\ Ready
    /\ input_value' = new_filter
    /\ filter' = new_filter
    /\ IF new_filter # filter
       THEN LET files == watch_filter_files(fs, path, new_filter)
                value == watch_filter_value(files)
            IN /\ _files' = files
               /\ _selected_index' =
                      selected_index_value(files, _selected_index, value)
               /\ emitted' = selected_index_emits(files, value, <<>>)
       ELSE /\ emitted' = <<>>
            /\ UNCHANGED <<_files, _selected_index>>
    /\ calls' = <<>>
    /\ op' = "watch_filter"
    /\ UNCHANGED <<fs, path, mounted, chosen_paths, has_focus,
                   cursor_movement_enabled, error>>

\* The application answers a change of the search input made by
\* action_clear_filter or action_goto_parent: it assigns the text to filter,
\* and the watcher runs.  A directory-change request sent after the change
\* stays waiting.
on_input_changed ==
    /\ mounted
    /\ error = "none"
    /\ PendingInputChange
    /\ filter' = input_value
    /\ LET files == watch_filter_files(fs, path, input_value)
           value == watch_filter_value(files)
       IN /\ _files' = files
          /\ _selected_index' =
                 selected_index_value(files, _selected_index, value)
          /\ emitted' = selected_index_emits(files, value,
                            Emitted("CurrentDirChanged"))
    /\ calls' = <<>>
    /\ op' = "on_input_changed"
    /\ UNCHANGED <<fs, path, mounted, input_value, chosen_paths, has_focus,
                   cursor_movement_enabled, error>>

\* Mutant: the chosen paths survive the clearing of the filter.
action_clear_filter_chosen_keep(chosen) == chosen

\* action_clear_filter: what is left of the chosen paths.
action_clear_filter_chosen(chosen) == {}

action_clear_filter ==
    /\ Ready
    /\ IF input_value # ""
       THEN input_value' = ""
       ELSE UNCHANGED input_value
    /\ chosen_paths' = action_clear_filter_chosen(chosen_paths)
    /\ emitted' = <<SecondarySelectionChanged(chosen_paths')>>
    /\ calls' = <<>>
    /\ op' = "action_clear_filter"
    /\ UNCHANGED <<fs, path, _files, _selected_index, mounted, filter,
                   has_focus, cursor_movement_enabled, error>>

---------------------------------------------------------------------------
(* Navigation requests                                                     *)

\* goto_selected_path: what is left of the chosen paths.
goto_selected_path_chosen(fsys, highlighted, chosen) ==
    IF highlighted # None /\ is_dir(fsys, highlighted) THEN {} ELSE chosen

\* goto_selected_path: the messages it emits.
goto_selected_path_emits(fsys, highlighted) ==
    IF highlighted # None /\ is_dir(fsys, highlighted)
    THEN <<CurrentDirChanged(highlighted, None)>>
    ELSE <<>>

\* Mutant: a file is not opened.
goto_selected_path_calls_none(fsys, highlighted) == <<>>

\* goto_selected_path: the editor processes it starts.
goto_selected_path_calls(fsys, highlighted) ==
    IF highlighted # None /\ ~is_dir(fsys, highlighted) /\ is_file(fsys, highlighted)
    THEN <<[fn |-> "call", path |-> highlighted, ok |-> TRUE]>>
    ELSE <<>>

\* action_choose_path
goto_selected_path ==
    /\ Ready
    /\ chosen_paths' =
           goto_selected_path_chosen(fs, current_highlighted_path, chosen_paths)
    /\ emitted' = goto_selected_path_emits(fs, current_highlighted_path)
    /\ calls' = goto_selected_path_calls(fs, current_highlighted_path)
    /\ op' = "goto_selected_path"
    /\ UNCHANGED <<fs, path, _files, _selected_index, mounted, filter,
                   input_value, has_focus, cursor_movement_enabled, error>>

\* action_goto_parent: the messages it emits.
action_goto_parent_emits(dir) == <<CurrentDirChanged(Parent(dir), dir)>>

\* Mutant: the widget moves to the parent itself instead of asking for it.
action_goto_parent_moves ==
    /\ Ready
    /\ input_value' = ""
    /\ path' = Parent(path)
    /\ _files' = list_files_in_dir(fs, Parent(path))
    /\ _selected_index' = <<0>>
    /\ emitted' = action_goto_parent_emits(path)
    /\ calls' = <<>>
    /\ op' = "action_goto_parent"
    /\ UNCHANGED <<fs, mounted, filter, chosen_paths, has_focus,
                   cursor_movement_enabled, error>>

action_goto_parent ==
    /\ Ready
    /\ input_value' = ""
    /\ emitted' = action_goto_parent_emits(path)
    /\ calls' = <<>>
    /\ op' = "action_goto_parent"
    /\ UNCHANGED <<fs, path, _files, _selected_index, mounted, filter,
                   chosen_paths, has_focus, cursor_movement_enabled, error>>

\* update_source_directory: the entries it leaves.
update_source_directory_files(fsys, files, new_path) ==
    IF new_path # None THEN list_files_in_dir(fsys, new_path) ELSE files

\* Mutant: the cursor is not reset after the listing is replaced.
update_source_directory_value_keep(files) == None

\* update_source_directory: the value it assigns to selected_index.
update_source_directory_value(files) ==
    IF Len(files) > 0 THEN <<0>> ELSE None

\* Mutant: the cursor always returns to the first entry.
select_path_value_first(files, p) == <<0>>

\* select_path: the value it assigns to selected_index.
select_path_value(files, p) ==
    IF p = None THEN <<0>>
    ELSE IF \E i \in 1..Len(files) : files[i] = p
         THEN <<(CHOOSE i \in 1..Len(files) :
                    files[i] = p /\ \A j \in 1..(i - 1) : files[j] # p) - 1>>
         ELSE <<0>>

\* The container refreshes the listing in place.
update_source_directory(new_path) ==
    /\ Ready
    /\ LET files == update_source_directory_files(fs, _files, new_path)
           value == update_source_directory_value(files)
       IN /\ path' = IF new_path # None THEN new_path ELSE path
          /\ _files' = files
          /\ _selected_index' =
                 selected_index_value(files, _selected_index, value)
          /\ emitted' = selected_index_emits(files, value, <<>>)
    /\ calls' = <<>>
    /\ op' = "update_source_directory"
    /\ UNCHANGED <<fs, mounted, filter, input_value, chosen_paths, has_focus,
                   cursor_movement_enabled, error>>

select_path(p) ==
    /\ Ready
    /\ LET value == select_path_value(_files, p)
       IN /\ _selected_index' =
                 selected_index_value(_files, _selected_index, value)
          /\ emitted' = selected_index_emits(_files, value, <<>>)
    /\ calls' = <<>>
    /\ op' = "select_path"
    /\ UNCHANGED <<fs, path, _files, mounted, filter, input_value,
                   chosen_paths, has_focus, cursor_movement_enabled, error>>

\* The container answers a directory-change request: it refreshes the widget
\* to the new directory and selects the directory it came from.
on_current_dir_changed ==
    /\ mounted
    /\ error = "none"
    /\ PendingDirChange
    /\ ~PendingInputChange
    /\ LET request == Emitted("CurrentDirChanged")[1]
           files == update_source_directory_files(fs, _files, request.new_dir)
           first == update_source_directory_value(files)
           index == selected_index_value(files, _selected_index, first)
           value == select_path_value(files, request.from_dir)
       IN /\ path' = request.new_dir
          /\ _files' = files
          /\ _selected_index' = selected_index_value(files, index, value)
          /\ emitted' = selected_index_emits(files, value,
                            selected_index_emits(files, first, <<>>))
    /\ calls' = <<>>
    /\ op' = "on_current_dir_changed"
    /\ UNCHANGED <<fs, mounted, filter, input_value, chosen_paths, has_focus,
                   cursor_movement_enabled, error>>

---------------------------------------------------------------------------
(* The chosen paths                                                        *)

\* Mutant: a toggle only ever adds.
action_toggle_selected_chosen_add(highlighted, chosen) ==
    chosen \cup {highlighted}

\* action_toggle_selected: the chosen paths it leaves.
action_toggle_selected_chosen(highlighted, chosen) ==
    IF highlighted \in chosen
    THEN chosen \ {highlighted}
    ELSE chosen \cup {highlighted}

\* _emit_secondary_selection_changed: the message carries the chosen paths.
_emit_secondary_selection_changed(chosen) ==
    <<SecondarySelectionChanged(chosen)>>

action_toggle_selected ==
    /\ Ready
    /\ chosen_paths' =
           action_toggle_selected_chosen(current_highlighted_path, chosen_paths)
    /\ emitted' = _emit_secondary_selection_changed(chosen_paths')
    /\ calls' = <<>>
    /\ op' = "action_toggle_selected"
    /\ UNCHANGED <<fs, path, _files, _selected_index, mounted, filter,
                   input_value, has_focus, cursor_movement_enabled, error>>

\* What rm_tree(p) may leave of the filesystem: each file below p may refuse.
rm_tree_outcomes(fsys, p) ==
    {rm_tree(fsys, p, denied) :
        denied \in SUBSET {f \in AllFiles \cap fsys : IsUnder(f, p)}}

\* The loop of action_delete_selected over the copied chosen paths: every
\* way it can end.  The set yields its members in any order; os.remove may
\* raise, and None has no is_file: either exception leaves the loop at once.
RECURSIVE delete_loop(_, _, _, _)
delete_loop(todo, fsys, chosen, log) ==
    IF todo = {}
    THEN {[fs |-> fsys, chosen |-> chosen, calls |-> log, error |-> "none"]}
    ELSE UNION {
        IF p = None
        THEN {[fs |-> fsys, chosen |-> chosen, calls |-> log,
               error |-> "AttributeError"]}
        ELSE IF is_file(fsys, p)
        THEN {[fs |-> fsys, chosen |-> chosen,
               calls |-> Append(log, [fn |-> "os.remove", path |-> p,
                                      ok |-> FALSE]),
               error |-> "PermissionError"]}
             \cup delete_loop(todo \ {p}, fsys \ {p}, chosen \ {p},
                              Append(log, [fn |-> "os.remove", path |-> p,
                                           ok |-> TRUE]))
        ELSE UNION {
            delete_loop(todo \ {p}, left, chosen \ {p},
                        Append(log, [fn |-> "rm_tree", path |-> p,
                                     ok |-> p \notin left]))
            : left \in rm_tree_outcomes(fsys, p)}
        : p \in todo}

action_delete_selected ==
    /\ Ready
    /\ \E done \in delete_loop(chosen_paths, fs, chosen_paths, <<>>) :
         LET files == update_source_directory_files(done.fs, _files, path)
             value == update_source_directory_value(files)
         IN /\ fs' = done.fs
            /\ chosen_paths' = done.chosen
            /\ calls' = done.calls
            /\ error' = done.error
            /\ IF done.error = "none"
               THEN /\ _files' = files
                    /\ _selected_index' =
                           selected_index_value(files, _selected_index, value)
                    /\ emitted' = selected_index_emits(files, value,
                           _emit_secondary_selection_changed(done.chosen))
               ELSE /\ emitted' = <<>>
                    /\ UNCHANGED <<_files, _selected_index>>
    /\ op' = "action_delete_selected"
    /\ UNCHANGED <<path, mounted, filter, input_value, has_focus,
                   cursor_movement_enabled>>

---------------------------------------------------------------------------
Next ==
    \/ _on_mount
    \/ on_focus
    \/ on_blur
    \/ action_next_file
    \/ action_prev_file
    \/ action_first
    \/ action_last
    \/ \E new_filter \in FilterPatterns : set_filter(new_filter)
    \/ on_input_changed
    \/ action_clear_filter
    \/ goto_selected_path
    \/ action_goto_parent
    \/ \E new_path \in {None, path} : update_source_directory(new_path)
    \/ \E p \in AllPaths \cup {None} : select_path(p)
    \/ on_current_dir_changed
    \/ action_toggle_selected
    \/ action_delete_selected

Spec == Init /\ [][Next]_vars

---------------------------------------------------------------------------
(* Properties                                                              *)

\* The handlers that only move the cursor.
CursorMoves ==
    {"action_next_file", "action_prev_file", "action_first", "action_last"}

\* The paths of a sequence of entries.
Entries(files) == {files[i] : i \in 1..Len(files)}

\* C1: once mounted, whenever the entry list is non-empty the cursor is an
\* index of it, whatever operation replaced or shrank the list.
C1_CursorInRange ==
    (mounted /\ _files # <<>>) =>
        /\ _selected_index # None
        /\ _selected_index[1] \in 0..(Len(_files) - 1)

\* C1 witness: a deletion has shortened the entry list and entries remain.
C1_Witness ==
    /\ op = "action_delete_selected"
    /\ error = "none"
    /\ calls # <<>>
    /\ _files # <<>>
    /\ Len(_files) < Len(list_files_in_dir(AllPaths, path))
    /\ _selected_index = <<0>>

\* The last handler assigned selected_index: action_first and action_last
\* always do, the other two when focused with movement enabled.
CursorMoved ==
    /\ op \in CursorMoves
    /\ op \in {"action_first", "action_last"}
           \/ (has_focus /\ cursor_movement_enabled)

\* C2: after a cursor move the cursor is None when there are no entries, and
\* an index of the entry list otherwise.
C2_Claim ==
    (mounted /\ CursorMoved) =>
        IF _files = <<>>
        THEN _selected_index = None
        ELSE /\ _selected_index # None
             /\ _selected_index[1] \in 0..(Len(_files) - 1)

\* C3: a deletion of chosen entries of the directory in which no removal
\* fails leaves the directory's listing without the chosen entries, in
\* listing order, nothing chosen, and the cursor at 0, or None when no entry
\* is left.
C3_Claim ==
    [][(/\ op' = "action_delete_selected"
        /\ chosen_paths \subseteq Entries(list_files_in_dir(fs, path))
        /\ error' = "none"
        /\ \A i \in 1..Len(calls') : calls'[i].ok)
       => /\ _files' = SelectSeq(list_files_in_dir(fs, path),
                                 LAMBDA q : q \notin chosen_paths)
          /\ chosen_paths' = {}
          /\ _selected_index' = IF _files' # <<>> THEN <<0>> ELSE None]_vars

\* C4: when a deletion has returned or was ended by a failed removal,
\* nothing is chosen.
C4_Claim ==
    (op = "action_delete_selected" /\ error # "AttributeError") =>
        chosen_paths = {}

\* C5: a deletion attempts the removal of every path that was chosen when it
\* started, then notifies of the chosen paths and lists the directory again,
\* also when a removal fails.
C5_Claim ==
    [][(op' = "action_delete_selected" /\ None \notin chosen_paths)
       => /\ {calls'[i].path : i \in 1..Len(calls')} = chosen_paths
          /\ Len(SelectSeq(emitted',
                 LAMBDA m : m.type = "SecondarySelectionChanged")) = 1
          /\ _files' = list_files_in_dir(fs', path)]_vars

\* C6: the chosen paths never hold None: toggling with nothing highlighted
\* leaves them as they were.
C6_Claim == None \notin chosen_paths

\* C7: toggling with an entry highlighted adds it to the chosen paths when
\* absent and removes it when present, leaves the other chosen paths, the
\* cursor and the entries alone, and emits one SecondarySelectionChanged
\* carrying the chosen paths as they are afterwards.
C7_Toggle ==
    [][(op' = "action_toggle_selected" /\ current_highlighted_path # None)
       => LET p == current_highlighted_path
          IN /\ chosen_paths' = IF p \in chosen_paths
                                THEN chosen_paths \ {p}
                                ELSE chosen_paths \cup {p}
             /\ UNCHANGED <<_selected_index, _files>>
             /\ emitted' = <<SecondarySelectionChanged(chosen_paths')>>]_vars

\* C7 witness: a toggle has removed the highlighted entry and left another
\* path chosen.
C7_Witness ==
    /\ op = "action_toggle_selected"
    /\ _files # <<>>
    /\ current_highlighted_path \notin chosen_paths
    /\ chosen_paths # {}
    /\ None \notin chosen_paths

\* C8: whenever the represented directory changes, nothing is chosen
\* afterwards.
C8_Claim == [][path' # path => chosen_paths' = {}]_vars

\* C9: action_clear_filter leaves nothing chosen and emits a
\* SecondarySelectionChanged carrying the empty set, with or without text in
\* the search input.
C9_ClearFilter ==
    [][op' = "action_clear_filter"
       => /\ chosen_paths' = {}
          /\ emitted' = <<SecondarySelectionChanged({})>>]_vars

\* C9 witness: the filter was cleared while a filter was applied.
C9_Witness ==
    /\ op = "action_clear_filter"
    /\ filter # ""
    /\ chosen_paths = {}

\* C10: goto_selected_path on a directory emits one CurrentDirChanged for it
\* with no from_dir and clears the chosen paths; on a file it starts one
\* editor and emits nothing; with nothing highlighted it emits nothing.
C10_Enter ==
    [][op' = "goto_selected_path"
       => LET p == current_highlighted_path
          IN /\ (p # None /\ is_dir(fs, p)) =>
                    /\ emitted' = <<CurrentDirChanged(p, None)>>
                    /\ chosen_paths' = {}
                    /\ calls' = <<>>
             /\ (p # None /\ is_file(fs, p)) =>
                    /\ calls' = <<[fn |-> "call", path |-> p, ok |-> TRUE]>>
                    /\ emitted' = <<>>
             /\ p = None => (emitted' = <<>> /\ calls' = <<>>)]_vars

\* C10 witness: a directory-change request for the highlighted directory is
\* waiting for the container.
C10_Witness ==
    /\ op = "goto_selected_path"
    /\ PendingDirChange
    /\ emitted[1].new_dir = current_highlighted_path

\* The position of an entry in a list, counted from 0 as the cursor counts.
IndexOf(files, p) == (CHOOSE i \in 1..Len(files) : files[i] = p) - 1

\* C11: action_goto_parent from the directory P emits exactly one
\* CurrentDirChanged, with new_dir the parent of P and from_dir P; and when
\* the container has answered it (update_source_directory(parent), then
\* select_path(P)) the widget shows the parent and the cursor is at the
\* position of P in the parent's entries.
C11_ParentReturn ==
    [][/\ op' = "action_goto_parent"
          => emitted' = <<CurrentDirChanged(Parent(path), path)>>
       /\ (/\ op' = "on_current_dir_changed"
           /\ Emitted("CurrentDirChanged")[1].from_dir \notin {None, Root})
          => LET P == Emitted("CurrentDirChanged")[1].from_dir
             IN /\ path' = Parent(P)
                /\ _files' = list_files_in_dir(fs, Parent(P))
                /\ P \in Entries(_files')
                /\ _selected_index' = <<IndexOf(_files', P)>>]_vars

\* C11 witness: the container has brought the widget back from /a to the
\* root and the cursor is on /a, which is not the first entry of the root.
C11_Witness ==
    /\ op = "on_current_dir_changed"
    /\ path = Root
    /\ current_highlighted_path = SubDir
    /\ _selected_index # <<0>>

\* C12: no CurrentDirChanged is ever emitted whose new_dir is the directory
\* the widget already shows (the parent of the root is the root itself) or
\* is not a directory; action_goto_parent at the root emits no request.
C12_Claim ==
    \A i \in 1..Len(emitted) :
        emitted[i].type = "CurrentDirChanged"
            => /\ emitted[i].new_dir # path
               /\ is_dir(fs, emitted[i].new_dir)

\* C13: goto_selected_path and action_goto_parent leave the current path,
\* the entries and the cursor as they were; these change only when the
\* container answers the request.
C13_RequestsKeepView ==
    [][op' \in {"goto_selected_path", "action_goto_parent"}
       => UNCHANGED <<path, _files, _selected_index>>]_vars

\* C13 witness: in /a, with the cursor on its entry, a request for the parent
\* has been emitted and the widget still shows /a.
C13_Witness ==
    /\ op = "action_goto_parent"
    /\ emitted = <<CurrentDirChanged(Root, SubDir)>>
    /\ path = SubDir
    /\ _files = <<<<"/", "a", "x">>>>
    /\ _selected_index = <<0>>

\* The entries of the current directory whose name matches a pattern at its
\* start, in listing order.
Matching(pattern) ==
    SelectSeq(list_files_in_dir(fs, path),
              LAMBDA file : re_match(pattern, Name(file)))

\* C14: after watch_filter(pattern) the entries are exactly the entries of
\* the directory whose name matches the pattern at its start, in listing
\* order (all of them for the empty pattern), and the cursor is 0 when there
\* is a match and 'no selection' otherwise, wherever it was before.
C14_Claim ==
    [][(op' \in {"watch_filter", "on_input_changed"} /\ filter' # filter)
       => /\ _files' = Matching(filter')
          /\ _selected_index' = IF _files' # <<>> THEN <<0>> ELSE None]_vars

C16_SelectPath ==
    [][op' = "select_path"
       => \A p \in AllPaths \cup {None} :
             select_path(p)
                => /\ UNCHANGED <<_files, chosen_paths>>
                   /\ error' = "none"
                   /\ IF p \in Entries(_files)
                      THEN _selected_index' = <<IndexOf(_files, p)>>
                      ELSE _files # <<>> => _selected_index' = <<0>>]_vars

\* C16 witness: select_path has put the cursor on an entry that is not the
\* first one.
C16_Witness ==
    /\ op = "select_path"
    /\ _selected_index # None
    /\ _selected_index[1] > 0
    /\ _selected_index[1] < Len(_files)

C18_OnePerMove ==
    [][(op' \in CursorMoves /\ _selected_index' # _selected_index)
       => /\ _files' # <<>>
             => emitted' =
                   <<FilePreviewChanged(_files'[_selected_index'[1] + 1])>>
          /\ _files' = _files]_vars

\* C18 witness: action_next_file has moved the cursor to the second entry and
\* emitted the message carrying that entry.
C18_Witness ==
    /\ op = "action_next_file"
    /\ _selected_index = <<1>>
    /\ Len(_files) >= 2
    /\ emitted = <<FilePreviewChanged(_files[2])>>

\* action_next_file with the cursor on the last entry, or action_prev_file
\* with the cursor on the first one.
AtBoundary(name) ==
    /\ _files # <<>>
    /\ \/ name = "action_next_file" /\ _selected_index = <<Len(_files) - 1>>
       \/ name = "action_prev_file" /\ _selected_index = <<0>>

C20_Claim ==
    (mounted /\ filter # "" /\ ~PendingInputChange)
        => \A i \in 1..Len(_files) : re_search(filter, Name(_files[i]))

====
